---- MODULE Spec2Model ----
(***************************************************************************)
(* Model of skelly-animatronics.ino: the cooperative loop() that drives    *)
(* three head servos and a jaw servo.                                      *)
(*                                                                         *)
(* Units.  Time is millis() in milliseconds.  Head angles are the sketch's *)
(* floats, held here in millidegrees (Deg(90) = 90000), so a jitter of one *)
(* tenth of a degree is 100 and HEAD_MOVE_SPEED * elapsed / 1000.0 is      *)
(* exactly 8 * elapsed.  Jaw angles are the sketch's ints, in degrees.     *)
(* Characters are their ASCII codes, 0 is the string terminator.           *)
(***************************************************************************)
EXTENDS Integers, Sequences, FiniteSets, TLC

\* ------------------------------------------------------------------ bounds
\* Largest value of millis() the loop is followed to.
MaxTime == 20005

\* Milliseconds that may pass between two passes of loop().
TickSteps == {0, 100, 2500}

\* Largest value of millis() a run of smoothJawMovement calls is followed to.
MaxJawTime == 45

\* Largest number of milliseconds between two smoothJawMovement calls of such
\* a run.
MaxJawStep == 10

\* Number of entries of phrases[] that random(numPhrases) is let to return.
PhraseDraws == 1

\* ------------------------------------------------------- program constants
DEFAULT_POSITION == 90
JAW_CLOSED == 115
JAW_OPEN_MAX == 70
HEAD_ROTATION_MIN == 60
HEAD_ROTATION_MAX == 120
HEAD_X_MIN == 75
HEAD_X_MAX == 115
HEAD_Y_MIN == 75
HEAD_Y_MAX == 115
LETTER_DURATION == 100
HEAD_MOVE_DURATION == 5000
GRADUAL_MOVE_INTERVAL == 20
JAW_SMOOTH_INTERVAL == 10
RANDOM_MOVE_INTERVAL == 1000
PHRASE_DURATION == 10000
JAW_CLOSE_DURATION == 200
JAW_SMOOTHING_STEP == 5
RANDOM_MOVE_RANGE == 35
HEAD_MOVE_SPEED == 8
BREATH_INTERVAL == 3000
BREATH_AMPLITUDE == 2
BREATH_UPDATE == 20
PHRASE_SIZE == 20

\* ----------------------------------------------------------------- helpers
\* A whole number of degrees as a float of the sketch (millidegrees).
Deg(d) == d * 1000

\* abs() of Arduino.h
abs(x) == IF x > 0 THEN x ELSE -x

\* constrain() of Arduino.h
constrain(amt, low, high) == IF amt < low THEN low ELSE IF amt > high THEN high ELSE amt

\* C integer division, which truncates toward zero.
TruncDiv(a, b) == IF (a >= 0) = (b > 0) THEN abs(a) \div abs(b) ELSE -(abs(a) \div abs(b))

\* A map() that leaves out the start of the output range.
mapNoOffset(x, in_min, in_max, out_min, out_max) ==
  TruncDiv((x - in_min) * (out_max - out_min), in_max - in_min)

\* map() of Arduino: (x - in_min) * (out_max - out_min) / (in_max - in_min) + out_min
map(x, in_min, in_max, out_min, out_max) ==
  TruncDiv((x - in_min) * (out_max - out_min), in_max - in_min) + out_min

\* round() of Arduino.h applied to a float, giving whole degrees.
round(x) == IF x >= 0 THEN (x + 500) \div 1000 ELSE -((500 - x) \div 1000)

\* The values random(lo, hi) is let to return, out of lo .. hi-1, when it is
\* drawn for an axis: the largest for the rotation, the smallest for X, both
\* for Y.
random(axis, lo, hi) ==
  IF axis = "r" THEN {hi - 1} ELSE IF axis = "x" THEN {lo} ELSE {lo, hi - 1}

Alphabet == <<"A","B","C","D","E","F","G","H","I","J","K","L","M",
              "N","O","P","Q","R","S","T","U","V","W","X","Y","Z">>

\* ASCII code of a character of the phrase table.
Ord(ch) == IF ch = " " THEN 32 ELSE 64 + (CHOOSE i \in 1..26 : Alphabet[i] = ch)

Str(s) == [i \in 1..Len(s) |-> Ord(s[i])]

letterToJaw == << 50, 25, 38, 25, 50,
                  25, 38, 25, 50, 25,
                  25, 25, 38, 38, 50,
                  25, 25, 38, 38, 25,
                  50, 25, 25, 38, 50,
                  25 >>

phrases == <<
  Str(<<"H","E","L","L","O"," ","T","H","E","R","E">>),
  Str(<<"H","O","W"," ","A","R","E"," ","Y","O","U">>),
  Str(<<"I"," ","A","M"," ","A"," ","S","K","E","L","E","T","O","N">>),
  Str(<<"N","I","C","E"," ","T","O"," ","M","E","E","T"," ","Y","O","U">>),
  Str(<<"W","E","L","C","O","M","E"," ","T","O"," ","M","Y"," ","L","A","I","R">>),
  Str(<<"B","E","W","A","R","E"," ","O","F"," ","G","H","O","S","T","S">>),
  Str(<<"H","A","P","P","Y"," ","H","A","L","L","O","W","E","E","N">>),
  Str(<<"B","O","O"," ","D","I","D"," ","I"," ","S","C","A","R","E"," ","Y","O","U">>),
  Str(<<"L","E","T","S"," ","H","A","V","E"," ","S","O","M","E"," ","F","U","N">>),
  Str(<<"T","I","M","E"," ","F","O","R"," ","A"," ","P","A","R","T","Y">>) >>

numPhrases == Len(phrases)

\* strlen(): the number of characters before the first terminator.
strlen(buf) == (CHOOSE i \in 1..Len(buf) : buf[i] = 0 /\ \A j \in 1..(i-1) : buf[j] # 0) - 1

\* A strncpy that does not pad: it leaves dst as it was beyond the end of src.
strncpyNoPad(dst, src, n) ==
  [i \in 1..Len(dst) |-> IF i <= n /\ i <= Len(src) THEN src[i] ELSE dst[i]]

\* strncpy(dst, src, n): the first n characters of src, padded with
\* terminators up to n; the rest of dst is left as it was.
strncpy(dst, src, n) ==
  [i \in 1..Len(dst) |-> IF i > n THEN dst[i] ELSE IF i <= Len(src) THEN src[i] ELSE 0]

isSilentCharacter(c) == c = 32 \/ c = 46 \/ c = 44 \/ c = 33

\* A getJawPositionForLetter whose default is a quarter-open jaw.
getJawPositionForLetterDefault(letter) ==
  IF letter >= 65 /\ letter <= 90 THEN letterToJaw[letter - 65 + 1] ELSE 25

getJawPositionForLetter(letter) ==
  IF letter >= 65 /\ letter <= 90 THEN letterToJaw[letter - 65 + 1] ELSE 0

\* The sine of a phase of the breath cycle, times BREATH_AMPLITUDE, in
\* millidegrees: sin(2*PI*p/BREATH_INTERVAL) by Bhaskara's rational formula
\* sin(PI*u) = 16 u(1-u) / (5 - 4 u(1-u)) = 4 q / (5 half^2 / 4 - q) for
\* u = p / half and q = p (half - p); exact at the quarter cycles and within
\* 0.2 percent elsewhere.  The divisor is taken in thousands, which is what
\* turns degrees into millidegrees.
HalfSine(p, half) ==
  (4 * p * (half - p) * BREATH_AMPLITUDE) \div (((5 * half * half) \div 4 - p * (half - p)) \div 1000)

BreathOffsetAt(t) ==
  LET half == BREATH_INTERVAL \div 2
      p == t % BREATH_INTERVAL
  IN IF p < half THEN HalfSine(p, half) ELSE -HalfSine(p - half, half)

\* A moveTowards that steps even when it is at the target.
moveTowardsAlwaysSteps(current, target, maxMove) ==
  IF current = target THEN current + maxMove
  ELSE IF abs(current - target) <= maxMove THEN target
  ELSE IF current < target THEN current + maxMove
  ELSE current - maxMove

\* moveTowards without the arrival test.
moveTowardsNoArrival(current, target, maxMove) ==
  IF current < target THEN current + maxMove ELSE current - maxMove

moveTowards(current, target, maxMove) ==
  IF abs(current - target) <= maxMove THEN target
  ELSE IF current < target THEN current + maxMove
  ELSE current - maxMove

\* A smoothJawMovement that always steps and never goes straight to the
\* target.
smoothJawMovementStepsOnly(s, targetPosition, t) ==
  IF t - s.last >= JAW_SMOOTH_INTERVAL
  THEN [pos |-> IF s.pos < targetPosition
                THEN (IF s.pos + JAW_SMOOTHING_STEP > targetPosition
                      THEN targetPosition ELSE s.pos + JAW_SMOOTHING_STEP)
                ELSE IF s.pos > targetPosition
                THEN (IF s.pos - JAW_SMOOTHING_STEP < targetPosition
                      THEN targetPosition ELSE s.pos - JAW_SMOOTHING_STEP)
                ELSE s.pos,
        last |-> t]
  ELSE s

\* A smoothJawMovement whose step is not limited to the target.
smoothJawMovementUnlimited(s, targetPosition, t) ==
  IF abs(s.pos - targetPosition) > JAW_SMOOTHING_STEP * 2
  THEN [pos |-> targetPosition, last |-> s.last]
  ELSE IF t - s.last >= JAW_SMOOTH_INTERVAL
  THEN [pos |-> IF s.pos < targetPosition THEN s.pos + JAW_SMOOTHING_STEP
                ELSE IF s.pos > targetPosition THEN s.pos - JAW_SMOOTHING_STEP
                ELSE s.pos,
        last |-> t]
  ELSE s

\* smoothJawMovement as a function of the jaw servo's position and
\* lastJawSmoothTime (s.pos, s.last), called at time t.
smoothJawMovement(s, targetPosition, t) ==
  IF abs(s.pos - targetPosition) > JAW_SMOOTHING_STEP * 2
  THEN [pos |-> targetPosition, last |-> s.last]
  ELSE IF t - s.last >= JAW_SMOOTH_INTERVAL
  THEN [pos |-> IF s.pos < targetPosition
                THEN (IF s.pos + JAW_SMOOTHING_STEP > targetPosition
                      THEN targetPosition ELSE s.pos + JAW_SMOOTHING_STEP)
                ELSE IF s.pos > targetPosition
                THEN (IF s.pos - JAW_SMOOTHING_STEP < targetPosition
                      THEN targetPosition ELSE s.pos - JAW_SMOOTHING_STEP)
                ELSE s.pos,
        last |-> t]
  ELSE s

\* ------------------------------------------------------------------- state
VARIABLES
  now,                 \* millis()
  pc,                  \* the call loop() makes next
  currentTime,         \* loop()'s local currentTime
  lastLetterTime, lastHeadMoveTime, lastGradualMoveTime, lastJawSmoothTime,
  lastRandomMoveTime, lastPhraseTime, lastBreathTime,
  targetRotation, targetX, targetY,
  currentRotation, currentX, currentY,
  breathOffset,
  currentPhrase, currentLetterIndex,
  skull_r_servo, skull_x_servo, skull_y_servo, skull_jaw_servo,
  \* observations of the run, read by the properties only
  delayed,             \* milliseconds the last call spent inside delay()
  written,             \* head servos the last graduallyMoveServos wrote to
  before,              \* head servo positions before the last graduallyMoveServos
  baselineY,           \* targetY as last set by updateHeadMovement or
                       \* randomMovementsBetweenSentences
  phraseEndTime,       \* millis() when the phrase was last cleared, -1 if never
  jawClosedSince,      \* millis() when the jaw servo last moved to JAW_CLOSED
  jawTarget,           \* the target of the last smoothJawMovement call
  fired                \* the timed body the last call ran, "" if it ran none

timers == <<lastLetterTime, lastHeadMoveTime, lastGradualMoveTime, lastJawSmoothTime,
            lastRandomMoveTime, lastPhraseTime, lastBreathTime>>
targets == <<targetRotation, targetX, targetY>>
currents == <<currentRotation, currentX, currentY>>
headServos == <<skull_r_servo, skull_x_servo, skull_y_servo>>
speech == <<currentPhrase, currentLetterIndex>>
observed == <<delayed, written, before, baselineY, phraseEndTime, jawClosedSince,
             jawTarget, fired>>
vars == <<now, pc, currentTime, timers, targets, currents, breathOffset, speech,
          headServos, skull_jaw_servo, observed>>

Init ==
  /\ now = 0
  /\ pc = "loop"
  /\ currentTime = 0
  /\ lastLetterTime = 0 /\ lastHeadMoveTime = 0 /\ lastGradualMoveTime = 0
  /\ lastJawSmoothTime = 0 /\ lastRandomMoveTime = 0 /\ lastPhraseTime = 0
  /\ lastBreathTime = 0
  /\ targetRotation = Deg(DEFAULT_POSITION)
  /\ targetX = Deg(DEFAULT_POSITION)
  /\ targetY = Deg(DEFAULT_POSITION)
  /\ currentRotation = Deg(DEFAULT_POSITION)
  /\ currentX = Deg(DEFAULT_POSITION)
  /\ currentY = Deg(DEFAULT_POSITION)
  /\ breathOffset = 0
  /\ currentPhrase = [i \in 1..PHRASE_SIZE |-> 0]
  /\ currentLetterIndex = 0
  /\ skull_r_servo = DEFAULT_POSITION
  /\ skull_x_servo = DEFAULT_POSITION
  /\ skull_y_servo = DEFAULT_POSITION
  /\ skull_jaw_servo = JAW_CLOSED
  /\ delayed = 0
  /\ written = {}
  /\ before = <<DEFAULT_POSITION, DEFAULT_POSITION, DEFAULT_POSITION>>
  /\ baselineY = Deg(DEFAULT_POSITION)
  /\ phraseEndTime = -1
  /\ jawClosedSince = 0
  /\ jawTarget = JAW_CLOSED
  /\ fired = ""

\* loop() is entered: the clock has moved on by dt since the last pass, and
\* loop() reads it into currentTime.
loop(dt) ==
  /\ pc = "loop"
  /\ now + dt <= MaxTime
  /\ IF dt = 0 THEN TRUE ELSE now % dt = 0
  /\ now' = now + dt
  /\ currentTime' = now'
  /\ pc' = "updateJawMovement"
  /\ delayed' = 0
  /\ fired' = ""
  /\ UNCHANGED <<timers, targets, currents, breathOffset, speech, headServos,
                 skull_jaw_servo, written, before, baselineY, phraseEndTime,
                 jawClosedSince, jawTarget>>

\* A consumption that clears the phrase one letter late, testing the index
\* with > where the sketch tests it with >=.
LetterClearsLate(t) ==
  LET currentLetter == currentPhrase[currentLetterIndex + 1]
      silent == isSilentCharacter(currentLetter)
      targetJawPosition ==
        IF silent THEN JAW_CLOSED
        ELSE map(getJawPositionForLetter(currentLetter), 0, 50, JAW_CLOSED, JAW_OPEN_MAX)
      pause == IF silent THEN JAW_CLOSE_DURATION ELSE 0
      s1 == smoothJawMovement([pos |-> skull_jaw_servo, last |-> lastJawSmoothTime],
                              targetJawPosition, t + pause)
      index == currentLetterIndex + 1
      atEnd == index > strlen(currentPhrase)
      s2 == IF atEnd THEN smoothJawMovement(s1, JAW_CLOSED, t + pause) ELSE s1
  IN [letter |-> currentLetter, target |-> targetJawPosition, pause |-> pause,
      jaw |-> s2, atEnd |-> atEnd,
      index |-> IF atEnd THEN 0 ELSE index,
      phrase |-> IF atEnd THEN [currentPhrase EXCEPT ![1] = 0] ELSE currentPhrase]

\* The jaw target updateJawMovement computes for a character.
JawTargetFor(currentLetter) ==
  IF isSilentCharacter(currentLetter) THEN JAW_CLOSED
  ELSE map(getJawPositionForLetter(currentLetter), 0, 50, JAW_CLOSED, JAW_OPEN_MAX)

\* What one consumption of a letter by updateJawMovement computes, called at
\* time t: the letter, its jaw target, the clock after the pause, the jaw
\* servo after each smoothJawMovement call, the index and the phrase.
Letter(t) ==
  LET currentLetter == currentPhrase[currentLetterIndex + 1]
      silent == isSilentCharacter(currentLetter)
      targetJawPosition == JawTargetFor(currentLetter)
      pause == IF silent THEN JAW_CLOSE_DURATION ELSE 0
      s1 == smoothJawMovement([pos |-> skull_jaw_servo, last |-> lastJawSmoothTime],
                              targetJawPosition, t + pause)
      index == currentLetterIndex + 1
      atEnd == index >= strlen(currentPhrase)
      s2 == IF atEnd THEN smoothJawMovement(s1, JAW_CLOSED, t + pause) ELSE s1
  IN [letter |-> currentLetter, target |-> targetJawPosition, pause |-> pause,
      jaw |-> s2, atEnd |-> atEnd,
      index |-> IF atEnd THEN 0 ELSE index,
      phrase |-> IF atEnd THEN [currentPhrase EXCEPT ![1] = 0] ELSE currentPhrase]

updateJawMovement ==
  /\ pc = "updateJawMovement"
  /\ pc' = "updateHeadMovement"
  /\ IF currentPhrase[1] # 0
     THEN IF now - lastLetterTime >= LETTER_DURATION
          THEN LET r == Letter(now) IN
               /\ now' = now + r.pause
               /\ delayed' = r.pause
               /\ skull_jaw_servo' = r.jaw.pos
               /\ lastJawSmoothTime' = r.jaw.last
               /\ currentLetterIndex' = r.index
               /\ currentPhrase' = r.phrase
               /\ lastLetterTime' = now
               /\ phraseEndTime' = IF r.atEnd THEN now' ELSE phraseEndTime
               /\ jawTarget' = IF r.atEnd THEN JAW_CLOSED ELSE r.target
               /\ fired' = "letter"
          ELSE /\ fired' = ""
               /\ delayed' = 0
               /\ UNCHANGED <<now, skull_jaw_servo, lastJawSmoothTime, speech,
                              lastLetterTime, phraseEndTime, jawTarget>>
     ELSE LET s == smoothJawMovement([pos |-> skull_jaw_servo, last |-> lastJawSmoothTime],
                                     JAW_CLOSED, now) IN
          /\ skull_jaw_servo' = s.pos
          /\ lastJawSmoothTime' = s.last
          /\ jawTarget' = JAW_CLOSED
          /\ fired' = ""
          /\ delayed' = 0
          /\ UNCHANGED <<now, speech, lastLetterTime, phraseEndTime>>
  /\ jawClosedSince' = IF skull_jaw_servo' = JAW_CLOSED /\ skull_jaw_servo # JAW_CLOSED
                       THEN now' ELSE jawClosedSince
  /\ UNCHANGED <<currentTime, lastHeadMoveTime, lastGradualMoveTime, lastRandomMoveTime,
                 lastPhraseTime, lastBreathTime, targets, currents, breathOffset,
                 headServos, written, before, baselineY>>


\* An updateHeadMovement that leaves lastRandomMoveTime as it was.
JitterTimerKept(t, last) == last

\* lastRandomMoveTime after a move by updateHeadMovement at time t.
JitterTimerAfterMove(t, last) == t

updateHeadMovement ==
  /\ pc = "updateHeadMovement"
  /\ pc' = "randomMovementsBetweenSentences"
  /\ IF now - lastHeadMoveTime >= HEAD_MOVE_DURATION
     THEN /\ \E r \in random("r", HEAD_ROTATION_MIN, HEAD_ROTATION_MAX + 1) :
                targetRotation' = Deg(r)
          /\ \E x \in random("x", HEAD_X_MIN, HEAD_X_MAX + 1) : targetX' = Deg(x)
          /\ \E y \in random("y", HEAD_Y_MIN, HEAD_Y_MAX + 1) : targetY' = Deg(y)
          /\ lastHeadMoveTime' = now
          /\ lastRandomMoveTime' = JitterTimerAfterMove(now, lastRandomMoveTime)
          /\ baselineY' = targetY'
          /\ fired' = "head"
     ELSE /\ fired' = ""
          /\ UNCHANGED <<targets, lastHeadMoveTime, lastRandomMoveTime, baselineY>>
  /\ delayed' = 0
  /\ UNCHANGED <<now, currentTime, lastLetterTime, lastGradualMoveTime, lastJawSmoothTime,
                 lastPhraseTime, lastBreathTime, currents, breathOffset, speech,
                 headServos, skull_jaw_servo, written, before, phraseEndTime,
                 jawClosedSince, jawTarget>>

\* An adjustment that is not constrained to the axis's range.
AdjustUnconstrained(target, draw, lo, hi) == target + draw * 100

\* One of the three adjustments of randomMovementsBetweenSentences: a draw in
\* tenths of a degree added to a target and constrained to the axis's range.
Adjust(target, draw, lo, hi) == constrain(target + draw * 100, Deg(lo), Deg(hi))

\* A randomMovementsBetweenSentences that is due whether or not a phrase is
\* being spoken.
JitterDueWhenElapsed(t) == t - lastRandomMoveTime >= RANDOM_MOVE_INTERVAL

\* Whether randomMovementsBetweenSentences is due at time t.
JitterDue(t) == currentPhrase[1] = 0 /\ t - lastRandomMoveTime >= RANDOM_MOVE_INTERVAL

randomMovementsBetweenSentences ==
  /\ pc = "randomMovementsBetweenSentences"
  /\ pc' = "updateBreathing"
  /\ IF JitterDue(now)
     THEN /\ \E randomR \in random("r", -RANDOM_MOVE_RANGE, RANDOM_MOVE_RANGE + 1) :
                targetRotation' = Adjust(targetRotation, randomR,
                                         HEAD_ROTATION_MIN, HEAD_ROTATION_MAX)
          /\ \E randomX \in random("x", -RANDOM_MOVE_RANGE, RANDOM_MOVE_RANGE + 1) :
                targetX' = Adjust(targetX, randomX, HEAD_X_MIN, HEAD_X_MAX)
          /\ \E randomY \in random("y", -RANDOM_MOVE_RANGE, RANDOM_MOVE_RANGE + 1) :
                targetY' = Adjust(targetY, randomY, HEAD_Y_MIN, HEAD_Y_MAX)
          /\ lastRandomMoveTime' = now
          /\ baselineY' = targetY'
          /\ fired' = "random"
     ELSE /\ fired' = ""
          /\ UNCHANGED <<targets, lastRandomMoveTime, baselineY>>
  /\ delayed' = 0
  /\ UNCHANGED <<now, currentTime, lastLetterTime, lastHeadMoveTime, lastGradualMoveTime,
                 lastJawSmoothTime, lastPhraseTime, lastBreathTime, currents,
                 breathOffset, speech, headServos, skull_jaw_servo, written, before,
                 phraseEndTime, jawClosedSince,
                 jawTarget>>

\* updateBreathing(currentTime) is passed the time loop() read on entry.
updateBreathing ==
  /\ pc = "updateBreathing"
  /\ pc' = "graduallyMoveServos"
  /\ IF currentTime - lastBreathTime >= BREATH_UPDATE
     THEN /\ breathOffset' = BreathOffsetAt(currentTime)
          /\ targetY' = constrain(targetY + breathOffset', Deg(HEAD_Y_MIN), Deg(HEAD_Y_MAX))
          /\ lastBreathTime' = currentTime
          /\ fired' = "breath"
     ELSE /\ fired' = ""
          /\ UNCHANGED <<breathOffset, targetY, lastBreathTime>>
  /\ delayed' = 0
  /\ UNCHANGED <<now, currentTime, lastLetterTime, lastHeadMoveTime, lastGradualMoveTime,
                 lastJawSmoothTime, lastRandomMoveTime, lastPhraseTime, targetRotation,
                 targetX, currents, speech, headServos, skull_jaw_servo, written,
                 before, baselineY, phraseEndTime, jawClosedSince,
                 jawTarget>>

\* The most a head axis may move in one firing, in millidegrees:
\* HEAD_MOVE_SPEED * elapsedSeconds.
MaxMove(elapsed) == HEAD_MOVE_SPEED * elapsed

\* A graduallyMoveServos whose test is the wrong way round.
WritesWhenUnchanged(new, current) == new = current

\* A graduallyMoveServos that writes every axis on every firing.
WritesAlways(new, current) == TRUE

\* Whether graduallyMoveServos writes an axis whose position goes from
\* current to new.
Writes(new, current) == new # current

graduallyMoveServos ==
  /\ pc = "graduallyMoveServos"
  /\ pc' = "generateNewPhrase"
  /\ IF now - lastGradualMoveTime >= GRADUAL_MOVE_INTERVAL
     THEN LET maxMove == MaxMove(now - lastGradualMoveTime)
              newRotation == moveTowards(currentRotation, targetRotation, maxMove)
              newX == moveTowards(currentX, targetX, maxMove)
              newY == moveTowards(currentY, targetY, maxMove)
          IN /\ currentRotation' = newRotation
             /\ currentX' = newX
             /\ currentY' = newY
             /\ skull_r_servo' = IF Writes(newRotation, currentRotation)
                                 THEN round(newRotation) ELSE skull_r_servo
             /\ skull_x_servo' = IF Writes(newX, currentX)
                                 THEN round(newX) ELSE skull_x_servo
             /\ skull_y_servo' = IF Writes(newY, currentY)
                                 THEN round(newY) ELSE skull_y_servo
             /\ written' = {a \in {"r", "x", "y"} :
                              \/ a = "r" /\ Writes(newRotation, currentRotation)
                              \/ a = "x" /\ Writes(newX, currentX)
                              \/ a = "y" /\ Writes(newY, currentY)}
             /\ before' = headServos
             /\ lastGradualMoveTime' = now
             /\ fired' = "servo"
     ELSE /\ fired' = ""
          /\ UNCHANGED <<currents, headServos, written, before, lastGradualMoveTime>>
  /\ delayed' = 0
  /\ UNCHANGED <<now, currentTime, lastLetterTime, lastHeadMoveTime, lastJawSmoothTime,
                 lastRandomMoveTime, lastPhraseTime, lastBreathTime, targets,
                 breathOffset, speech, skull_jaw_servo, baselineY, phraseEndTime,
                 jawClosedSince, jawTarget>>

\* A generateNewPhrase that is due whenever no phrase is active.
PhraseDueWhenIdle(t) == currentPhrase[1] = 0

\* A generateNewPhrase that is due PHRASE_DURATION after the last selection,
\* whether or not a phrase is active.
PhraseDueWhenElapsed(t) == t - lastPhraseTime >= PHRASE_DURATION

\* Whether generateNewPhrase is due at time t.
PhraseDue(t) == currentPhrase[1] = 0 /\ t - lastPhraseTime >= PHRASE_DURATION

\* generateNewPhrase with the phrase taken from a set of source strings.
generateNewPhraseFrom(sources) ==
  /\ pc = "generateNewPhrase"
  /\ pc' = "loop"
  /\ IF PhraseDue(now)
     THEN /\ \E source \in sources :
                currentPhrase' =
                  [strncpy(currentPhrase, source, PHRASE_SIZE - 1)
                     EXCEPT ![PHRASE_SIZE] = 0]
          /\ currentLetterIndex' = 0
          /\ lastPhraseTime' = now
          /\ fired' = "phrase"
     ELSE /\ fired' = ""
          /\ UNCHANGED <<speech, lastPhraseTime>>
  /\ delayed' = 0
  /\ UNCHANGED <<now, currentTime, lastLetterTime, lastHeadMoveTime, lastGradualMoveTime,
                 lastJawSmoothTime, lastRandomMoveTime, lastBreathTime, targets,
                 currents, breathOffset, headServos, skull_jaw_servo, written, before,
                 baselineY, phraseEndTime, jawClosedSince,
                 jawTarget>>

\* The entries of phrases[] that random(numPhrases) is let to pick.
Drawn == {phrases[phraseIndex + 1] :
            phraseIndex \in {i \in 0..(PhraseDraws - 1) : i < numPhrases}}

generateNewPhrase == generateNewPhraseFrom(Drawn)

Next ==
  \/ \E dt \in TickSteps : loop(dt)
  \/ updateJawMovement
  \/ updateHeadMovement
  \/ randomMovementsBetweenSentences
  \/ updateBreathing
  \/ graduallyMoveServos
  \/ generateNewPhrase

Spec == Init /\ [][Next]_vars

\* A pass of loop() before which the clock has moved on.
Advance == \E dt \in TickSteps \ {0} : loop(dt)

\* The loop keeps making its calls, and the clock keeps advancing between
\* passes for as long as the bound on it allows.
FairSpec == Spec /\ WF_vars(Next) /\ SF_vars(Advance)

\* --------------------------------------------- smoothJawMovement on its own
\* The jaw servo anywhere in its range and a target anywhere in its range,
\* everything else as after setup().
JawInit ==
  /\ now = 0
  /\ pc = "smoothJawMovement"
  /\ skull_jaw_servo \in JAW_OPEN_MAX..JAW_CLOSED
  /\ jawTarget \in JAW_OPEN_MAX..JAW_CLOSED
  /\ currentTime = 0
  /\ lastLetterTime = 0 /\ lastHeadMoveTime = 0 /\ lastGradualMoveTime = 0
  /\ lastJawSmoothTime = 0 /\ lastRandomMoveTime = 0 /\ lastPhraseTime = 0
  /\ lastBreathTime = 0
  /\ targetRotation = Deg(DEFAULT_POSITION)
  /\ targetX = Deg(DEFAULT_POSITION)
  /\ targetY = Deg(DEFAULT_POSITION)
  /\ currentRotation = Deg(DEFAULT_POSITION)
  /\ currentX = Deg(DEFAULT_POSITION)
  /\ currentY = Deg(DEFAULT_POSITION)
  /\ breathOffset = 0
  /\ currentPhrase = [i \in 1..PHRASE_SIZE |-> 0]
  /\ currentLetterIndex = 0
  /\ skull_r_servo = DEFAULT_POSITION
  /\ skull_x_servo = DEFAULT_POSITION
  /\ skull_y_servo = DEFAULT_POSITION
  /\ delayed = 0
  /\ written = {}
  /\ before = <<DEFAULT_POSITION, DEFAULT_POSITION, DEFAULT_POSITION>>
  /\ baselineY = Deg(DEFAULT_POSITION)
  /\ phraseEndTime = -1
  /\ jawClosedSince = 0
  /\ fired = ""

\* The clock moves on by dt and smoothJawMovement(jawTarget) is called.
JawCall(dt) ==
  /\ pc = "smoothJawMovement"
  /\ now + dt <= MaxJawTime
  /\ now' = now + dt
  /\ LET s == smoothJawMovement([pos |-> skull_jaw_servo, last |-> lastJawSmoothTime],
                                jawTarget, now')
     IN /\ skull_jaw_servo' = s.pos
        /\ lastJawSmoothTime' = s.last
  /\ UNCHANGED <<pc, currentTime, lastLetterTime, lastHeadMoveTime, lastGradualMoveTime,
                 lastRandomMoveTime, lastPhraseTime, lastBreathTime, targets, currents,
                 breathOffset, speech, headServos, observed>>

JawNext == \E dt \in {1, MaxJawStep} : JawCall(dt)

JawSpec == JawInit /\ [][JawNext]_vars /\ WF_vars(JawNext)

\* ------------------------------------------------- the speech path on its own
\* The sketch with ENABLE_HEAD_MOVEMENT, ENABLE_RANDOM_MOVEMENTS and
\* ENABLE_BREATHING set to false: loop() passes over the call.
Disabled(call, next) ==
  /\ pc = call
  /\ pc' = next
  /\ delayed' = 0
  /\ fired' = ""
  /\ UNCHANGED <<now, currentTime, timers, targets, currents, breathOffset, speech,
                 headServos, skull_jaw_servo, written, before, baselineY,
                 phraseEndTime, jawClosedSince, jawTarget>>

\* A string longer than currentPhrase.
LongPhrase ==
  Str(<<"T","H","I","S"," ","I","S"," ","F","A","R"," ","T","O","O"," ","L","O","N","G">>)

\* Every entry of phrases[], and the string that does not fit.
Sources == {phrases[i] : i \in 1..numPhrases} \cup {LongPhrase}

SpeechNext ==
  \/ \E dt \in TickSteps : loop(dt)
  \/ updateJawMovement
  \/ Disabled("updateHeadMovement", "randomMovementsBetweenSentences")
  \/ Disabled("randomMovementsBetweenSentences", "updateBreathing")
  \/ Disabled("updateBreathing", "graduallyMoveServos")
  \/ graduallyMoveServos
  \/ generateNewPhraseFrom(Sources)

SpeechSpec == Init /\ [][SpeechNext]_vars

\* ------------------------------------------- the letter mapping on its own
\* The characters a char can hold.
Chars == (-128)..127

\* Any character as the letter updateJawMovement is about to read,
\* everything else as after setup().
LetterInit ==
  /\ now = 0
  /\ pc = "JawTargetFor"
  /\ \E c \in Chars : currentPhrase = [i \in 1..PHRASE_SIZE |-> IF i = 1 THEN c ELSE 0]
  /\ currentLetterIndex = 0
  /\ skull_jaw_servo = JAW_CLOSED
  /\ jawTarget = JAW_CLOSED
  /\ currentTime = 0
  /\ lastLetterTime = 0 /\ lastHeadMoveTime = 0 /\ lastGradualMoveTime = 0
  /\ lastJawSmoothTime = 0 /\ lastRandomMoveTime = 0 /\ lastPhraseTime = 0
  /\ lastBreathTime = 0
  /\ targetRotation = Deg(DEFAULT_POSITION)
  /\ targetX = Deg(DEFAULT_POSITION)
  /\ targetY = Deg(DEFAULT_POSITION)
  /\ currentRotation = Deg(DEFAULT_POSITION)
  /\ currentX = Deg(DEFAULT_POSITION)
  /\ currentY = Deg(DEFAULT_POSITION)
  /\ breathOffset = 0
  /\ skull_r_servo = DEFAULT_POSITION
  /\ skull_x_servo = DEFAULT_POSITION
  /\ skull_y_servo = DEFAULT_POSITION
  /\ delayed = 0
  /\ written = {}
  /\ before = <<DEFAULT_POSITION, DEFAULT_POSITION, DEFAULT_POSITION>>
  /\ baselineY = Deg(DEFAULT_POSITION)
  /\ phraseEndTime = -1
  /\ jawClosedSince = 0
  /\ fired = ""

\* The jaw target is computed for the character.
LetterCall ==
  /\ pc = "JawTargetFor"
  /\ pc' = "done"
  /\ jawTarget' = JawTargetFor(currentPhrase[currentLetterIndex + 1])
  /\ UNCHANGED <<now, currentTime, timers, targets, currents, breathOffset, speech,
                 headServos, skull_jaw_servo, delayed, written, before, baselineY,
                 phraseEndTime, jawClosedSince, fired>>

LetterNext == LetterCall

LetterSpec == LetterInit /\ [][LetterNext]_vars

\* ---------------------------------------------------------------- properties
active == currentPhrase[1] # 0

InRange(v, lo, hi) == Deg(lo) <= v /\ v <= Deg(hi)

\* C1: in every reachable state the target and the current position of each
\* head axis (rotation, X, Y) lie within that axis's [min, max] range.
C1_HeadWithinBounds ==
  /\ InRange(targetRotation, HEAD_ROTATION_MIN, HEAD_ROTATION_MAX)
  /\ InRange(currentRotation, HEAD_ROTATION_MIN, HEAD_ROTATION_MAX)
  /\ InRange(targetX, HEAD_X_MIN, HEAD_X_MAX)
  /\ InRange(currentX, HEAD_X_MIN, HEAD_X_MAX)
  /\ InRange(targetY, HEAD_Y_MIN, HEAD_Y_MAX)
  /\ InRange(currentY, HEAD_Y_MIN, HEAD_Y_MAX)

\* A jitter has just been applied to targets that the planner had put on the
\* edge of their ranges, after breathing and interpolation have run.
C1_Witness ==
  /\ fired = "random"
  /\ lastHeadMoveTime > 0 /\ lastBreathTime > 0 /\ lastGradualMoveTime > 0
  /\ targetRotation = Deg(HEAD_ROTATION_MAX)
  /\ targetX = Deg(HEAD_X_MIN)
  /\ currentRotation # Deg(DEFAULT_POSITION)

\* A step of graduallyMoveServos in which its timed body runs.
Interpolates ==
  pc = "graduallyMoveServos" /\ now - lastGradualMoveTime >= GRADUAL_MOVE_INTERVAL

NoOvershoot(current, new, target, elapsed) ==
  /\ abs(new - target) <= abs(current - target)
  /\ abs(new - current) <= HEAD_MOVE_SPEED * elapsed

\* C2: every firing of graduallyMoveServos leaves each axis no further from
\* its target than it was, and moves it by at most HEAD_MOVE_SPEED times the
\* seconds since the previous firing; from 90 toward 115 with one second
\* elapsed the new position is 98.
C2_NoOvershoot ==
  [][Interpolates =>
       /\ NoOvershoot(currentRotation, currentRotation', targetRotation,
                      now - lastGradualMoveTime)
       /\ NoOvershoot(currentX, currentX', targetX, now - lastGradualMoveTime)
       /\ NoOvershoot(currentY, currentY', targetY, now - lastGradualMoveTime)
       /\ moveTowards(Deg(90), Deg(115), MaxMove(1000)) = Deg(98)]_vars

\* A firing has moved the Y axis by a bounded step that did not reach the
\* target, and has brought the rotation onto its target.
C2_Witness ==
  /\ fired = "servo"
  /\ "y" \in written /\ currentY # targetY
  /\ "r" \in written /\ currentRotation = targetRotation

WriteRule(a, current, new, servo, servoAfter, writtenAfter) ==
  /\ (a \in writtenAfter) <=> (new # current)
  /\ servoAfter = IF new # current THEN round(new) ELSE servo

C4_NeverBlocks == delayed = 0

\* A step of generateNewPhrase that selects a phrase.
Selects == pc = "generateNewPhrase" /\ lastPhraseTime' # lastPhraseTime

\* C5 as stated: a phrase is selected only when idle and at least
\* PHRASE_DURATION after the previous phrase was cleared.
C5_SelectsAfterPhraseEnd ==
  (fired = "phrase" /\ phraseEndTime >= 0) =>
     lastPhraseTime - phraseEndTime >= PHRASE_DURATION

\* C5 as amended: a phrase is selected only when idle and at least
\* PHRASE_DURATION after the previous phrase was selected (after start-up
\* for the first phrase).
C5_SelectsAfterPhraseStart ==
  [][Selects => ~active /\ now - lastPhraseTime >= PHRASE_DURATION]_vars

\* A phrase has been selected after an earlier one had run and been cleared.
C5_Witness ==
  /\ fired = "phrase" /\ active
  /\ phraseEndTime >= PHRASE_DURATION
  /\ lastPhraseTime - phraseEndTime < PHRASE_DURATION

\* C6: while a phrase is active generateNewPhrase selects nothing: it leaves
\* the phrase text, the letter index and its own timer as they are.
C6_NoSelectionMidPhrase ==
  [][pc = "generateNewPhrase" /\ active =>
       UNCHANGED <<currentPhrase, currentLetterIndex, lastPhraseTime>>]_vars

\* generateNewPhrase has returned without selecting although PHRASE_DURATION
\* had elapsed, because a phrase was still being spoken.
C6_Witness ==
  /\ pc = "loop" /\ fired = ""
  /\ active /\ currentLetterIndex > 0
  /\ now - lastPhraseTime >= PHRASE_DURATION

\* A step of updateJawMovement that consumes a letter.
Consumes ==
  pc = "updateJawMovement" /\ active /\ now - lastLetterTime >= LETTER_DURATION

\* C8: when a letter follows a silent character, the jaw servo has been at
\* JAW_CLOSED for at least JAW_CLOSE_DURATION when that letter's aperture is
\* commanded.
C8_JawClosedForPause ==
  [][(Consumes /\ currentLetterIndex > 0
        /\ isSilentCharacter(currentPhrase[currentLetterIndex])) =>
       /\ skull_jaw_servo = JAW_CLOSED
       /\ now - jawClosedSince >= JAW_CLOSE_DURATION]_vars

\* C9: after an update by updateBreathing, targetY is the value last set by
\* updateHeadMovement or randomMovementsBetweenSentences plus the breathing
\* offset, constrained to the Y range, and so within BREATH_AMPLITUDE of it.
C9_BreathOnBaseline ==
  fired = "breath" =>
     /\ targetY = constrain(baselineY + breathOffset, Deg(HEAD_Y_MIN), Deg(HEAD_Y_MAX))
     /\ abs(targetY - baselineY) <= Deg(BREATH_AMPLITUDE)

\* The bound on the clock lets it advance no further.
ClockStopped == \A dt \in TickSteps \ {0} : now + dt > MaxTime \/ now % dt # 0

JawSettleTime == 2 * (JAW_SMOOTH_INTERVAL + MaxJawStep - 1)

\* C10: repeated smoothJawMovement calls with a fixed target and the clock
\* advancing bring the jaw servo exactly to the target, within the calls of
\* a bounded time; once there it stays; and no call takes it past the target
\* or further from it.
C10_JawConverges ==
  /\ [](now >= JawSettleTime => skull_jaw_servo = jawTarget)
  /\ <>[](skull_jaw_servo = jawTarget)
  /\ [][skull_jaw_servo = jawTarget => skull_jaw_servo' = jawTarget]_vars
  /\ [][/\ (skull_jaw_servo - jawTarget) * (skull_jaw_servo' - jawTarget) >= 0
        /\ abs(skull_jaw_servo' - jawTarget) <= abs(skull_jaw_servo - jawTarget)]_vars

\* The jaw has reached a target it started within two steps of, by stepping,
\* the last step having been cut short at the target.
C10_Witness ==
  /\ pc = "smoothJawMovement"
  /\ skull_jaw_servo = jawTarget
  /\ jawTarget = JAW_CLOSED - 2 * JAW_SMOOTHING_STEP + 1
  /\ lastJawSmoothTime >= 2 * JAW_SMOOTH_INTERVAL
  /\ now < JawSettleTime

\* C11: in every reachable state the position commanded to the jaw servo lies
\* within [JAW_OPEN_MAX, JAW_CLOSED], whichever phrase is being spoken.
C11_JawWithinRange ==
  JAW_OPEN_MAX <= skull_jaw_servo /\ skull_jaw_servo <= JAW_CLOSED

\* The jaw is fully open on a letter of a phrase that fills the buffer.
C11_Witness ==
  /\ fired = "letter" /\ active
  /\ skull_jaw_servo = JAW_OPEN_MAX
  /\ strlen(currentPhrase) = PHRASE_SIZE - 1

\* C12: for every character the jaw target is a value within
\* [JAW_OPEN_MAX, JAW_CLOSED], and it is JAW_CLOSED exactly when the character
\* is not an uppercase letter; in "HELLO THERE" the target of the space is
\* JAW_CLOSED and differs from the targets of the letters on either side.
C12_LetterMapping ==
  pc = "done" =>
    /\ JAW_OPEN_MAX <= jawTarget /\ jawTarget <= JAW_CLOSED
    /\ (jawTarget = JAW_CLOSED) <=> ~(currentPhrase[1] >= 65 /\ currentPhrase[1] <= 90)
    /\ JawTargetFor(phrases[1][6]) = JAW_CLOSED
    /\ JawTargetFor(phrases[1][5]) # JAW_CLOSED
    /\ JawTargetFor(phrases[1][7]) # JAW_CLOSED

\* The target of an "O" has been computed: the jaw fully open.
C12_Witness ==
  /\ pc = "done"
  /\ currentPhrase[1] = Ord("O")
  /\ jawTarget = JAW_OPEN_MAX

\* A step of randomMovementsBetweenSentences in which its timed body runs.
Jitters == pc = "randomMovementsBetweenSentences" /\ JitterDue(now)

\* C13: randomMovementsBetweenSentences does not fire in the pass in which
\* updateHeadMovement has moved the targets, nor less than
\* RANDOM_MOVE_INTERVAL after that move.
C13_NoJitterAfterMove ==
  [][Jitters => now - lastHeadMoveTime >= RANDOM_MOVE_INTERVAL]_vars

\* The first jitter after a move, RANDOM_MOVE_INTERVAL after it.
C13_Witness ==
  /\ fired = "random"
  /\ lastHeadMoveTime >= HEAD_MOVE_DURATION
  /\ lastRandomMoveTime - lastHeadMoveTime = RANDOM_MOVE_INTERVAL

StaysAtTarget(a, current, new, target, servo, servoAfter, writtenAfter) ==
  current = target => (new = current /\ servoAfter = servo /\ a \notin writtenAfter)

\* C14: a firing of graduallyMoveServos leaves an axis that is at its target
\* where it is, and writes nothing to its servo.
C14_IdempotentAtTarget ==
  [][Interpolates =>
       /\ StaysAtTarget("r", currentRotation, currentRotation', targetRotation,
                        skull_r_servo, skull_r_servo', written')
       /\ StaysAtTarget("x", currentX, currentX', targetX,
                        skull_x_servo, skull_x_servo', written')
       /\ StaysAtTarget("y", currentY, currentY', targetY,
                        skull_y_servo, skull_y_servo', written')]_vars

\* A firing has left alone the rotation, which an earlier firing had brought
\* from the neutral position onto its target.
C14_Witness ==
  /\ fired = "servo"
  /\ currentRotation = targetRotation
  /\ currentRotation # Deg(DEFAULT_POSITION)
  /\ "r" \notin written

\* The buffer holds the first characters of the source, at most
\* PHRASE_SIZE - 1 of them, followed by a terminator.
HoldsPrefixOf(buf, source) ==
  LET n == IF Len(source) < PHRASE_SIZE - 1 THEN Len(source) ELSE PHRASE_SIZE - 1
  IN /\ strlen(buf) = n
     /\ \A i \in 1..n : buf[i] = source[i]

\* C15: the last place of the buffer always holds a terminator, and a
\* selection leaves in the buffer the first characters of the source, at most
\* PHRASE_SIZE - 1 of them, followed by a terminator, with letterIndex 0.
C15_TerminatedCopy ==
  /\ [](Len(currentPhrase) = PHRASE_SIZE /\ currentPhrase[PHRASE_SIZE] = 0)
  /\ [][Selects =>
          /\ currentLetterIndex' = 0
          /\ \E source \in Sources : HoldsPrefixOf(currentPhrase', source)]_vars

\* The string that does not fit has been selected and cut to PHRASE_SIZE - 1
\* characters.
C15_Witness ==
  /\ fired = "phrase"
  /\ strlen(currentPhrase) = PHRASE_SIZE - 1
  /\ currentPhrase[PHRASE_SIZE - 1] = LongPhrase[PHRASE_SIZE - 1]
  /\ currentPhrase[1] = LongPhrase[1]
  /\ currentLetterIndex = 0

\* C16: called while a phrase is active, randomMovementsBetweenSentences
\* leaves the three targets and lastRandomMoveTime as they are.
C16_NoJitterWhileSpeaking ==
  [][(pc = "randomMovementsBetweenSentences" /\ active) =>
       UNCHANGED <<targetRotation, targetX, targetY, lastRandomMoveTime>>]_vars

\* randomMovementsBetweenSentences has returned without a jitter although
\* RANDOM_MOVE_INTERVAL had elapsed, because a phrase was being spoken.
C16_Witness ==
  /\ pc = "updateBreathing" /\ fired = ""
  /\ active
  /\ now - lastRandomMoveTime >= RANDOM_MOVE_INTERVAL

\* C17: while the text is not empty letterIndex is at least 0 and less than
\* its length, so the letter read is never the terminator nor past the
\* buffer; while the text is empty letterIndex is 0.
C17_IndexWithinText ==
  IF active
  THEN /\ 0 <= currentLetterIndex
       /\ currentLetterIndex < strlen(currentPhrase)
       /\ currentLetterIndex + 1 < PHRASE_SIZE
  ELSE currentLetterIndex = 0

\* The last letter of a phrase that fills the buffer is about to be read.
C17_Witness ==
  /\ pc = "updateJawMovement" /\ active
  /\ strlen(currentPhrase) = PHRASE_SIZE - 1
  /\ currentLetterIndex = PHRASE_SIZE - 2

\* The jaw targets of all characters.
JawTargets == {JawTargetFor(c) : c \in Chars}

\* C18: whenever no phrase is active at the end of a pass of loop() the jaw
\* servo is at JAW_CLOSED; any two different jaw targets are more than
\* 2 * JAW_SMOOTHING_STEP apart.
C18_ClosedWhenIdle ==
  /\ (pc = "loop" /\ ~active) => skull_jaw_servo = JAW_CLOSED
  /\ \A a, b \in JawTargets : a = b \/ abs(a - b) > 2 * JAW_SMOOTHING_STEP

\* The end of the pass that consumed the last letter of a phrase.
C18_Witness ==
  /\ pc = "loop" /\ ~active
  /\ phraseEndTime >= PHRASE_DURATION
  /\ lastLetterTime + delayed = phraseEndTime
  /\ now = phraseEndTime
  /\ skull_jaw_servo = JAW_CLOSED

\* C19: in every reachable state each head servo holds round(current) of its
\* axis.
C19_ServoMirrorsCurrent ==
  /\ skull_r_servo = round(currentRotation)
  /\ skull_x_servo = round(currentX)
  /\ skull_y_servo = round(currentY)

\* A firing has moved the Y axis and written a new position to its servo.
C19_Witness ==
  /\ fired = "servo"
  /\ "y" \in written
  /\ skull_y_servo # before[3]
  /\ skull_y_servo # DEFAULT_POSITION

====
